---- MODULE Spec2Model ----
(***************************************************************************)
(* Model of the k8saudit event source                                      *)
(* (plugins/k8saudit/pkg/k8saudit/source.go).                              *)
(*                                                                         *)
(* Four units of execution are modelled:                                   *)
(*   - the producer: the scan goroutine of OpenFilePath, or the listener   *)
(*     goroutine and the HTTP handlers of OpenWebServer;                   *)
(*   - the merge goroutine of openEventSource;                             *)
(*   - the consumer, which calls NextBatch and Close one after the other.  *)
(* An unbuffered Go channel is a rendezvous: a send and the receive that   *)
(* takes it are one step.  A select with several ready cases is a          *)
(* nondeterministic choice among them.                                     *)
(***************************************************************************)
EXTENDS Integers, Sequences, FiniteSets, TLC

\* ---------------------------------------------------------------- bounds
\* Number of file lines read / HTTP requests received in one run.
MaxMsgs == 2
\* evts.Len(): slots of the batch (sdk.DefaultBatchSize in the source).
BatchSize == 2
\* Capacity of the webhook channel (webServerEventChanBufSize in the source).
EventChanCap == 1
\* plugin.Config.MaxEventSize, in bytes.
MaxEventSize == 2

\* ------------------------------------------------------------ error values
ErrNil     == "nil"
ErrEOF     == "sdk.ErrEOF"
ErrTimeout == "sdk.ErrTimeout"
ErrScan    == "scanner.Err"
ErrListen  == "listen error"
ErrServerClosed == "http.ErrServerClosed"

\* ------------------------------------------------------------ JSON values
\* A JSON object of an audit event: kind, stageTimestamp, and the rest of
\* its content (id) whose serialization is size bytes long.
NoField == "<absent>"

JEvent(id, ts, size) ==
    [t |-> "object", kind |-> "Event", stageTimestamp |-> ts,
     id |-> id, size |-> size, items |-> <<>>, hasItems |-> FALSE]

JEventList(id, items) ==
    [t |-> "object", kind |-> "EventList", stageTimestamp |-> NoField,
     id |-> id, size |-> 1, items |-> items, hasItems |-> TRUE]

JOther(id, kind) ==
    [t |-> "object", kind |-> kind, stageTimestamp |-> NoField,
     id |-> id, size |-> 1, items |-> <<>>, hasItems |-> FALSE]

JArray(elems) == [t |-> "array", elems |-> elems]

\* Raw bytes: either the text of a JSON value or text that is no JSON.
Bytes(v)      == [wellFormed |-> TRUE, value |-> v]
BadBytes(id)  == [wellFormed |-> FALSE, value |-> JOther(id, NoField)]

\* fastjson.ParseBytes
ParseBytes(bytes) ==
    IF bytes.wellFormed
    THEN [value |-> bytes.value, err |-> ErrNil]
    ELSE [value |-> bytes.value, err |-> "cannot parse JSON"]

\* time.Parse(time.RFC3339Nano, s) followed by UnixNano(), on the strings
\* that occur in the model.
timeParse(s) ==
    CASE s = "2023-01-01T00:00:01Z" -> [nanos |-> 1672531201, err |-> ErrNil]
      [] s = "2023-01-01T00:00:02Z" -> [nanos |-> 1672531202, err |-> ErrNil]
      [] OTHER                      -> [nanos |-> 0, err |-> "parsing time"]

\* Value.MarshalTo(nil): the serialized bytes of a value.
MarshalTo(v) == [id |-> v.id, len |-> v.size]

NoEvent == [Data |-> JOther(0, NoField), Timestamp |-> 0]

parseJSONAuditEvent(value) ==
    IF value.t # "object" \/ value.stageTimestamp = NoField
    THEN [event |-> NoEvent, err |-> "can't read stageTimestamp"]
    ELSE LET p == timeParse(value.stageTimestamp)
         IN  IF p.err # ErrNil
             THEN [event |-> NoEvent, err |-> p.err]
             ELSE [event |-> [Data |-> value, Timestamp |-> p.nanos],
                   err |-> ErrNil]

\* The loop over the items of an EventList (source.go:320-327).
RECURSIVE parseItems(_, _)
parseItems(items, res) ==
    IF items = <<>> THEN [res |-> res, err |-> ErrNil]
    ELSE LET r == parseJSONAuditEvent(Head(items))
         IN  IF r.err # ErrNil
             THEN [res |-> <<>>, err |-> r.err]
             ELSE parseItems(Tail(items), Append(res, r.event))

RECURSIVE parseJSONMessage(_)
RECURSIVE parseElems(_, _)
parseElems_first(elems, res) ==
    IF elems = <<>> THEN [res |-> res, err |-> ErrNil]
    ELSE LET r == parseJSONMessage(Head(elems))
         IN  IF r.err # ErrNil
             THEN [res |-> res, err |-> r.err]
             ELSE [res |-> res \o r.res, err |-> ErrNil]

\* The loop over the elements of an array (source.go:306-313).
parseElems(elems, res) ==
    IF elems = <<>> THEN [res |-> res, err |-> ErrNil]
    ELSE LET r == parseJSONMessage(Head(elems))
         IN  IF r.err # ErrNil
             THEN [res |-> res, err |-> r.err]
             ELSE parseElems(Tail(elems), res \o r.res)

parseJSONMessage(value) ==
    IF value.t = "array"
    THEN parseElems(value.elems, <<>>)
    ELSE IF value.kind = "EventList" /\ value.hasItems
    THEN parseItems(value.items, <<>>)
    ELSE IF value.kind = "Event"
    THEN LET r == parseJSONAuditEvent(value)
         IN  IF r.err # ErrNil
             THEN [res |-> <<>>, err |-> r.err]
             ELSE [res |-> <<r.event>>, err |-> ErrNil]
    ELSE [res |-> <<>>, err |-> "data not recognized as a k8s audit event"]

messageValues_partial(bytes) ==
    LET j == ParseBytes(bytes)
    IN  IF j.err # ErrNil THEN <<>> ELSE parseJSONMessage(j.value).res

\* What the merge goroutine makes of one raw message (source.go:199-208):
\* the events to hand over, none when parsing fails.
messageValues(bytes) ==
    LET j == ParseBytes(bytes)
    IN  IF j.err # ErrNil THEN <<>>
        ELSE LET r == parseJSONMessage(j.value)
             IN  IF r.err # ErrNil THEN <<>> ELSE r.res


\* ------------------------------------------------------- input messages
T1 == "2023-01-01T00:00:01Z"
T2 == "2023-01-01T00:00:02Z"

\* The raw messages the n-th line of a file is drawn from: a single event,
\* a list of two events, an array whose first event is one byte over
\* MaxEventSize, and text that is no JSON.
Pool(n) ==
    { Bytes(JEvent(10 * n + 1, T1, MaxEventSize)),
      Bytes(JEventList(10 * n, << JEvent(10 * n + 1, T1, MaxEventSize),
                                  JEvent(10 * n + 2, T2, 1) >>)),
      Bytes(JArray(<< JEvent(10 * n + 1, T1, MaxEventSize + 1),
                      JEvent(10 * n + 2, T2, MaxEventSize) >>)),
      BadBytes(10 * n) }

\* Raw messages of every shape parseJSONMessage tells apart, as the n-th
\* line of a file: events, lists and arrays (nested) of events with good
\* timestamps; text that is no JSON; objects of another kind, of no kind,
\* and a list without items; events, list items and array elements without
\* a stageTimestamp or with one that is no RFC 3339 time; and arrays that
\* hold an object of another kind next to events.
Ev(n, k)     == JEvent(10 * n + k, IF k % 2 = 1 THEN T1 ELSE T2, 1)
EvNoTs(n, k) == JEvent(10 * n + k, NoField, 1)
EvBadTs(n, k) == JEvent(10 * n + k, "yesterday", 1)

Shapes(n) ==
    { Bytes(Ev(n, 1)),
      Bytes(JEventList(10 * n, <<>>)),
      Bytes(JEventList(10 * n, << Ev(n, 1), Ev(n, 2), Ev(n, 3) >>)),
      Bytes(JArray(<< Ev(n, 1), Ev(n, 2) >>)),
      Bytes(JArray(<< JArray(<< Ev(n, 1), JArray(<< Ev(n, 2) >>) >>),
                      JEventList(10 * n, << Ev(n, 3), Ev(n, 4) >>) >>)),
      BadBytes(10 * n),
      Bytes(JOther(10 * n + 1, "Status")),
      Bytes(JOther(10 * n + 1, NoField)),
      Bytes(JOther(10 * n + 1, "EventList")),
      Bytes(EvNoTs(n, 1)),
      Bytes(EvBadTs(n, 1)),
      Bytes(JEventList(10 * n, << Ev(n, 1), EvBadTs(n, 2) >>)),
      Bytes(JArray(<< Ev(n, 1), EvNoTs(n, 2), Ev(n, 3) >>)),
      Bytes(JArray(<< Ev(n, 1), JArray(<< Ev(n, 2), EvBadTs(n, 3) >>) >>)),
      Bytes(JArray(<< Ev(n, 1),
                      JEventList(10 * n, << Ev(n, 2), EvNoTs(n, 3) >>) >>)),
      Bytes(JArray(<< Ev(n, 1), JOther(10 * n + 2, "Status"), Ev(n, 3) >>)),
      Bytes(JArray(<< JOther(10 * n + 1, NoField), Ev(n, 2) >>)) }

\* The bodies the n-th HTTP request is drawn from.
Bodies(n) ==
    { Bytes(JEvent(10 * n + 1, T1, MaxEventSize)),
      Bytes(JEventList(10 * n, << JEvent(10 * n + 1, T1, MaxEventSize + 1),
                                  JEvent(10 * n + 2, T2, 1) >>)) }

NoBytes == BadBytes(0)

\* HTTP requests: method, content type, whether the body is over
\* WebhookMaxBatchSize, and the body.
Requests(n) ==
    [method : {"POST"}, ctype : {"application/json"}, tooBig : {FALSE},
     body : Bodies(n)]
    \cup [method : {"GET"}, ctype : {"application/json"}, tooBig : {FALSE},
          body : {BadBytes(10 * n)}]
    \cup [method : {"POST"}, ctype : {"text/plain"}, tooBig : {FALSE},
          body : {BadBytes(10 * n)}]
    \cup [method : {"POST"}, ctype : {"application/json"}, tooBig : {TRUE},
          body : {BadBytes(10 * n)}]

\* ------------------------------------------------------------------ state
VARIABLES
    transport,          \* "file" (OpenFilePath) or "web" (OpenWebServer)
    \* producer
    ppc,                \* position of the scan / listener goroutine
    nmsgs,              \* lines scanned or requests received so far
    pmsg,               \* the line the scan goroutine is sending
    perr,               \* the producer's err: what it sends on errorChan
    eventChan,          \* buffer of the webhook's eventChan
    eventChanClosed,
    errorChanClosed,
    pending,            \* bodies of handlers that wait at eventChan <- bytes
    srvShutdown,        \* s.Shutdown has been called
    httpStatus,         \* status of the last HTTP response
    \* merge goroutine
    mpc,
    mvals,              \* values still to send on newEventChan
    merr,               \* error to send on newErrorChan
    newEventChanClosed,
    newErrorChanClosed,
    \* consumer
    cancelled,          \* ctx.Done() is closed
    cpc,                \* "idle", "select" (NextBatch) or "shutdown" (Close)
    i,
    timerFired,         \* the channel of time.After has its value
    eof,                \* eventSource.eof
    slots,              \* the event writers of the batch
    ret,                \* what the last NextBatch call returned
    \* history
    emitted,            \* raw messages, in the order they entered eventChan
    delivered,          \* records written to slots, in order
    scanFailed,         \* scanner.Err() was not nil
    closeCalled,
    errReturns,         \* calls that returned an error other than EOF, Timeout
    droppedAt,          \* i at the last drop of the call in progress, or -1
    eofCalls            \* NextBatch has been called with eof set

prodVars == << ppc, nmsgs, pmsg, perr, eventChan, eventChanClosed,
               errorChanClosed, pending, srvShutdown, httpStatus >>
mergeVars == << mpc, mvals, merr, newEventChanClosed, newErrorChanClosed >>
consVars == << cancelled, cpc, i, timerFired, eof, slots, ret >>
histVars == << emitted, delivered, scanFailed, closeCalled,
               errReturns, droppedAt, eofCalls >>
vars == << transport, prodVars, mergeVars, consVars, histVars >>

EmptySlot == [data |-> [id |-> 0, len |-> 0], ts |-> 0]
NoReturn == [n |-> 0, err |-> "none"]

\* The channels, the merge goroutine and the event source as
\* openEventSource returns them.
Opened ==
    /\ perr = ErrNil
    /\ eventChan = <<>>
    /\ eventChanClosed = FALSE
    /\ errorChanClosed = FALSE
    /\ pending = {}
    /\ srvShutdown = FALSE
    /\ httpStatus = 0
    /\ mpc = "select"
    /\ mvals = <<>>
    /\ merr = ErrNil
    /\ newEventChanClosed = FALSE
    /\ newErrorChanClosed = FALSE
    /\ cancelled = FALSE
    /\ cpc = "idle"
    /\ i = 0
    /\ timerFired = FALSE
    /\ eof = FALSE
    /\ slots = [k \in 0 .. BatchSize - 1 |-> EmptySlot]
    /\ ret = NoReturn
    /\ emitted = <<>>
    /\ delivered = <<>>
    /\ scanFailed = FALSE
    /\ closeCalled = FALSE
    /\ errReturns = 0
    /\ droppedAt = -1
    /\ eofCalls = FALSE

Init ==
    /\ transport \in {"file", "web"}
    /\ ppc = IF transport = "file" THEN "scan" ELSE "listen"
    /\ nmsgs = 0
    /\ pmsg = NoBytes
    /\ Opened


\* ------------------------------------------------- file producer (78-102)
\* scanner.Scan() yields a line; an empty line is skipped, any other line
\* is sent on eventChan.
FileScanLine ==
    /\ transport = "file" /\ ppc = "scan" /\ nmsgs < MaxMsgs
    /\ \E empty \in BOOLEAN, line \in Pool(nmsgs + 1) :
          /\ nmsgs' = nmsgs + 1
          /\ IF empty
             THEN UNCHANGED << ppc, pmsg >>
             ELSE ppc' = "send" /\ pmsg' = line
    /\ UNCHANGED << transport, perr, eventChan, eventChanClosed,
                    errorChanClosed, pending, srvShutdown, httpStatus,
                    mergeVars, consVars, histVars >>

\* scanner.Scan() returns false at the end of the file, scanner.Err() is nil.
FileScanEOF ==
    /\ transport = "file" /\ ppc = "scan"
    /\ ppc' = "closeErr"
    /\ UNCHANGED << transport, nmsgs, pmsg, perr, eventChan, eventChanClosed,
                    errorChanClosed, pending, srvShutdown, httpStatus,
                    mergeVars, consVars, histVars >>

\* The value of `err` at source.go:98: the variable assigned by os.Open at
\* line 79, which is nil once the goroutine runs.
scanErrSent(scannerErr, openErr) == openErr

\* scanner.Scan() returns false on a read failure: errorChan <- err.
FileScanFail ==
    /\ transport = "file" /\ ppc = "scan"
    /\ ppc' = "sendErr"
    /\ perr' = scanErrSent(ErrScan, ErrNil)
    /\ scanFailed' = TRUE
    /\ UNCHANGED << transport, nmsgs, pmsg, eventChan, eventChanClosed,
                    errorChanClosed, pending, srvShutdown, httpStatus,
                    mergeVars, consVars, emitted, delivered, closeCalled,
                    errReturns, droppedAt, eofCalls >>

\* deferred close(errorChan), of the scan goroutine and of the listener
\* goroutine; the scan goroutine goes on to close(eventChan).
ProducerCloseErr ==
    /\ ppc = "closeErr"
    /\ errorChanClosed' = TRUE
    /\ ppc' = IF transport = "file" THEN "closeEv" ELSE "done"
    /\ UNCHANGED << transport, nmsgs, pmsg, perr, eventChan, eventChanClosed,
                    pending, srvShutdown, httpStatus,
                    mergeVars, consVars, histVars >>

\* deferred close(eventChan) of the scan goroutine.
FileCloseEv ==
    /\ ppc = "closeEv"
    /\ eventChanClosed' = TRUE
    /\ ppc' = "done"
    /\ UNCHANGED << transport, nmsgs, pmsg, perr, eventChan, errorChanClosed,
                    pending, srvShutdown, httpStatus,
                    mergeVars, consVars, histVars >>

\* ---------------------------------------------- webhook producer (106-163)
\* ListenAndServe binds and serves.
ListenOk ==
    /\ transport = "web" /\ ppc = "listen" /\ ~srvShutdown
    /\ ppc' = "serve"
    /\ UNCHANGED << transport, nmsgs, pmsg, perr, eventChan, eventChanClosed,
                    errorChanClosed, pending, srvShutdown, httpStatus,
                    mergeVars, consVars, histVars >>

reportsErr_never(err) == FALSE
\* source.go:148: which results of ListenAndServe go to errorChan.
reportsErr(err) == err # ErrNil /\ err # ErrServerClosed

\* ListenAndServe fails to start (address in use, bad certificate).
ListenFail ==
    /\ transport = "web" /\ ppc = "listen" /\ ~srvShutdown
    /\ perr' = ErrListen
    /\ ppc' = IF reportsErr(ErrListen) THEN "sendErr" ELSE "closeErr"
    /\ UNCHANGED << transport, nmsgs, pmsg, eventChan, eventChanClosed,
                    errorChanClosed, pending, srvShutdown, httpStatus,
                    mergeVars, consVars, histVars >>

\* ListenAndServe returns http.ErrServerClosed once Shutdown was called.
ServeClosed ==
    /\ transport = "web" /\ ppc \in {"listen", "serve"} /\ srvShutdown
    /\ perr' = ErrServerClosed
    /\ ppc' = IF reportsErr(ErrServerClosed) THEN "sendErr" ELSE "closeErr"
    /\ UNCHANGED << transport, nmsgs, pmsg, eventChan, eventChanClosed,
                    errorChanClosed, pending, srvShutdown, httpStatus,
                    mergeVars, consVars, histVars >>

\* The handler up to w.WriteHeader (source.go:115-131).
handlerStatus(req) ==
    IF req.method # "POST" THEN 405
    ELSE IF req.ctype # "application/json" THEN 400
    ELSE IF req.tooBig THEN 400
    ELSE 200

\* A request is served; an accepted body waits at eventChan <- bytes.
WebRequest ==
    /\ transport = "web" /\ ppc = "serve" /\ ~srvShutdown /\ nmsgs < MaxMsgs
    /\ \E req \in Requests(nmsgs + 1) :
          /\ nmsgs' = nmsgs + 1
          /\ httpStatus' = handlerStatus(req)
          /\ pending' = IF handlerStatus(req) = 200
                        THEN pending \cup {req.body} ELSE pending
    /\ UNCHANGED << transport, ppc, pmsg, perr, eventChan, eventChanClosed,
                    errorChanClosed, srvShutdown,
                    mergeVars, consVars, histVars >>

WebEnqueue_drop ==
    /\ transport = "web"
    /\ \E b \in pending :
          /\ pending' = pending \ {b}
          /\ IF Len(eventChan) < EventChanCap
             THEN /\ eventChan' = Append(eventChan, b)
                  /\ emitted' = Append(emitted, b)
             ELSE UNCHANGED << eventChan, emitted >>
    /\ UNCHANGED << transport, ppc, nmsgs, pmsg, perr, eventChanClosed,
                    errorChanClosed, srvShutdown, httpStatus,
                    mergeVars, consVars, delivered, scanFailed,
                    closeCalled, errReturns, droppedAt, eofCalls >>

\* eventChan <- bytes of a handler, when the buffer has room (source.go:132).
WebEnqueue ==
    /\ transport = "web"
    /\ Len(eventChan) < EventChanCap
    /\ \E b \in pending :
          /\ pending' = pending \ {b}
          /\ eventChan' = Append(eventChan, b)
          /\ emitted' = Append(emitted, b)
    /\ UNCHANGED << transport, ppc, nmsgs, pmsg, perr, eventChanClosed,
                    errorChanClosed, srvShutdown, httpStatus,
                    mergeVars, consVars, delivered, scanFailed,
                    closeCalled, errReturns, droppedAt, eofCalls >>


\* ------------------------------------------- merge goroutine (190-221)
\* The goroutine after one raw message: it sends the values one by one on
\* newEventChan, or is back at the select when there is none.
afterParse_return(values) ==
    IF values = <<>> THEN "closeErr" ELSE "send"

\* Where the merge goroutine goes with the values of a message: to the
\* sends of the range loop, or back to the select when there is none
\* (the two continue statements and the empty range, source.go:199-211).
afterParse(values) ==
    IF values = <<>> THEN "select" ELSE "send"

MergeTakes(bytes) ==
    /\ mvals' = messageValues(bytes)
    /\ mpc' = afterParse(messageValues(bytes))
    /\ UNCHANGED << merr, newEventChanClosed, newErrorChanClosed >>

\* case bytes, ok := <-eventChan, taking the line the scan goroutine sends.
MergeRecvFile ==
    /\ mpc = "select" /\ transport = "file" /\ ppc = "send"
    /\ MergeTakes(pmsg)
    /\ emitted' = Append(emitted, pmsg)
    /\ ppc' = "scan"
    /\ pmsg' = NoBytes
    /\ UNCHANGED << transport, nmsgs, perr, eventChan, eventChanClosed,
                    errorChanClosed, pending, srvShutdown, httpStatus,
                    consVars, delivered, scanFailed,
                    closeCalled, errReturns, droppedAt, eofCalls >>

\* case bytes, ok := <-eventChan, taking the head of the webhook's buffer.
MergeRecvWeb ==
    /\ mpc = "select" /\ eventChan # <<>>
    /\ MergeTakes(Head(eventChan))
    /\ eventChan' = Tail(eventChan)
    /\ UNCHANGED << transport, ppc, nmsgs, pmsg, perr, eventChanClosed,
                    errorChanClosed, pending, srvShutdown, httpStatus,
                    consVars, histVars >>

\* case bytes, ok := <-eventChan with ok false: return.
MergeEventClosed ==
    /\ mpc = "select" /\ eventChanClosed /\ eventChan = <<>>
    /\ mpc' = "closeErr"
    /\ UNCHANGED << transport, prodVars, mvals, merr, newEventChanClosed,
                    newErrorChanClosed, consVars, histVars >>

\* case <-ctx.Done(): return.
MergeCtxDone ==
    /\ mpc = "select" /\ cancelled
    /\ mpc' = "closeErr"
    /\ UNCHANGED << transport, prodVars, mvals, merr, newEventChanClosed,
                    newErrorChanClosed, consVars, histVars >>

MergeRecvErr_eager ==
    /\ mpc \in {"select", "send"} /\ ppc = "sendErr"
    /\ merr' = perr
    /\ mvals' = <<>>
    /\ mpc' = "sendErr"
    /\ ppc' = "closeErr"
    /\ UNCHANGED << transport, nmsgs, pmsg, perr, eventChan, eventChanClosed,
                    errorChanClosed, pending, srvShutdown, httpStatus,
                    newEventChanClosed, newErrorChanClosed,
                    consVars, histVars >>

\* case err, ok := <-errorChan with ok true: the producer's send completes
\* and the goroutine goes to newErrorChan <- err.
MergeRecvErr ==
    /\ mpc = "select" /\ ppc = "sendErr"
    /\ merr' = perr
    /\ mpc' = "sendErr"
    /\ ppc' = "closeErr"
    /\ UNCHANGED << transport, nmsgs, pmsg, perr, eventChan, eventChanClosed,
                    errorChanClosed, pending, srvShutdown, httpStatus,
                    mvals, newEventChanClosed, newErrorChanClosed,
                    consVars, histVars >>

\* case err, ok := <-errorChan with ok false: return.
MergeErrClosed ==
    /\ mpc = "select" /\ errorChanClosed
    /\ mpc' = "closeErr"
    /\ UNCHANGED << transport, prodVars, mvals, merr, newEventChanClosed,
                    newErrorChanClosed, consVars, histVars >>

\* deferred close(newErrorChan), the first of the two deferred closes to run.
MergeCloseErr ==
    /\ mpc = "closeErr"
    /\ newErrorChanClosed' = TRUE
    /\ mpc' = "closeEv"
    /\ UNCHANGED << transport, prodVars, mvals, merr, newEventChanClosed,
                    consVars, histVars >>

\* deferred close(newEventChan).
MergeCloseEv ==
    /\ mpc = "closeEv"
    /\ newEventChanClosed' = TRUE
    /\ mpc' = "done"
    /\ UNCHANGED << transport, prodVars, mvals, merr, newErrorChanClosed,
                    consVars, histVars >>

rangeNext_last(values) ==
    [v |-> values[Len(values)], rest |-> SubSeq(values, 1, Len(values) - 1)]
rangeNext_skip(values) ==
    [v |-> values[Len(values)], rest |-> <<>>]
\* for _, v := range values: the value sent next and the values after it.
rangeNext(values) == [v |-> Head(values), rest |-> Tail(values)]

\* ------------------------------------------------ consumer (241-298)
Min(a, b) == IF a < b THEN a ELSE b

atEOF_never(e_eof) == FALSE
\* source.go:248
atEOF(e_eof) == e_eof
overLimit_ge(data) == data.len >= MaxEventSize
\* source.go:272
overLimit(data) == data.len > MaxEventSize
onTimeout_eof(n, e_eof) == [n |-> n, err |-> ErrTimeout, eof |-> TRUE]
\* The results of NextBatch: count, error and the value of e.eof.
onEntryEOF            == [n |-> 0, err |-> ErrEOF, eof |-> TRUE]
onEventClosed(n)      == [n |-> n, err |-> ErrEOF, eof |-> TRUE]
onTimeout(n, e_eof)   == [n |-> n, err |-> ErrTimeout, eof |-> e_eof]
onCtxDone(n)          == [n |-> n, err |-> ErrEOF, eof |-> TRUE]
onError(n, err, ok)   == [n |-> n, err |-> IF ok THEN err ELSE ErrEOF,
                          eof |-> TRUE]
onFull(n, e_eof)      == [n |-> n, err |-> ErrNil, eof |-> e_eof]

\* NextBatch returns r.
Finish(r) ==
    /\ cpc' = "idle"
    /\ i' = 0
    /\ timerFired' = FALSE
    /\ eof' = r.eof
    /\ ret' = [n |-> r.n, err |-> r.err]
    /\ errReturns' = IF r.err \in {ErrNil, ErrEOF, ErrTimeout}
                     THEN errReturns ELSE Min(errReturns + 1, 2)
    /\ droppedAt' = -1

\* NextBatch is called: it returns at once when e.eof is set, and else
\* starts the timer and enters the loop.
NextBatchEnter ==
    /\ cpc = "idle"
    /\ IF atEOF(eof)
       THEN /\ Finish(onEntryEOF)
            /\ eofCalls' = TRUE
       ELSE /\ cpc' = "select"
            /\ i' = 0
            /\ timerFired' = FALSE
            /\ droppedAt' = -1
            /\ UNCHANGED << eof, ret, errReturns, eofCalls >>
    /\ UNCHANGED << transport, prodVars, mergeVars, cancelled, slots,
                    emitted, delivered, scanFailed, closeCalled >>

\* The timer of time.After(defaultEventTimeout) expires.
TimerFire ==
    /\ cpc = "select" /\ ~timerFired
    /\ timerFired' = TRUE
    /\ UNCHANGED << transport, prodVars, mergeVars, cancelled, cpc, i, eof,
                    slots, ret, histVars >>

\* case ev, ok := <-e.eventChan with ok true, taking the value the merge
\* goroutine sends: an oversized record is dropped, any other is written to
\* slot i; the call returns when that was the last slot.  The writers are
\* created with room for MaxEventSize bytes (source.go:224), so the Write
\* of a record within the limit succeeds.
NBRecvEvent ==
    /\ cpc = "select" /\ mpc = "send"
    /\ LET ev == rangeNext(mvals).v
           rest == rangeNext(mvals).rest
           data == MarshalTo(ev.Data)
       IN  /\ mvals' = rest
           /\ mpc' = IF rest = <<>> THEN "select" ELSE "send"
           /\ IF overLimit(data)
              THEN /\ droppedAt' = i
                   /\ UNCHANGED << cpc, i, timerFired, eof, slots, ret,
                                   delivered, errReturns >>
              ELSE /\ slots' = [slots EXCEPT
                                  ![i] = [data |-> data, ts |-> ev.Timestamp]]
                   /\ delivered' = Append(delivered,
                                     [data |-> data, ts |-> ev.Timestamp])
                   /\ IF i + 1 < BatchSize
                      THEN /\ i' = i + 1
                           /\ UNCHANGED << cpc, timerFired, eof, ret,
                                           errReturns, droppedAt >>
                      ELSE Finish(onFull(i + 1, eof))
    /\ UNCHANGED << transport, prodVars, merr, newEventChanClosed,
                    newErrorChanClosed, cancelled, emitted, scanFailed,
                    closeCalled, eofCalls >>

\* case ev, ok := <-e.eventChan with ok false.
NBEventClosed ==
    /\ cpc = "select" /\ newEventChanClosed
    /\ Finish(onEventClosed(i))
    /\ UNCHANGED << transport, prodVars, mergeVars, cancelled, slots,
                    emitted, delivered, scanFailed, closeCalled, eofCalls >>

\* case <-timeout.
NBTimeout ==
    /\ cpc = "select" /\ timerFired
    /\ Finish(onTimeout(i, eof))
    /\ UNCHANGED << transport, prodVars, mergeVars, cancelled, slots,
                    emitted, delivered, scanFailed, closeCalled, eofCalls >>

\* case <-e.ctx.Done().
NBCtxDone ==
    /\ cpc = "select" /\ cancelled
    /\ Finish(onCtxDone(i))
    /\ UNCHANGED << transport, prodVars, mergeVars, cancelled, slots,
                    emitted, delivered, scanFailed, closeCalled, eofCalls >>

\* case err, ok := <-e.errorChan with ok true, taking the error the merge
\* goroutine sends.
NBRecvErr ==
    /\ cpc = "select" /\ mpc = "sendErr"
    /\ Finish(onError(i, merr, TRUE))
    /\ mpc' = "select"
    /\ UNCHANGED << transport, prodVars, mvals, merr, newEventChanClosed,
                    newErrorChanClosed, cancelled, slots,
                    emitted, delivered, scanFailed, closeCalled, eofCalls >>

\* case err, ok := <-e.errorChan with ok false.
NBErrClosed ==
    /\ cpc = "select" /\ newErrorChanClosed
    /\ Finish(onError(i, ErrNil, FALSE))
    /\ UNCHANGED << transport, prodVars, mergeVars, cancelled, slots,
                    emitted, delivered, scanFailed, closeCalled, eofCalls >>

\* Close is called.  e.cancel is nil for a file source (source.go:101); for
\* the webhook it is onClose, which starts with s.Shutdown.
Close ==
    /\ cpc = "idle"
    /\ closeCalled' = TRUE
    /\ IF transport = "web"
       THEN cpc' = "shutdown" /\ srvShutdown' = TRUE
       ELSE UNCHANGED << cpc, srvShutdown >>
    /\ UNCHANGED << transport, ppc, nmsgs, pmsg, perr, eventChan,
                    eventChanClosed, errorChanClosed, pending, httpStatus,
                    mergeVars, cancelled, i, timerFired, eof, slots, ret,
                    emitted, delivered, scanFailed, errReturns, droppedAt,
                    eofCalls >>

cancelCtx_toggle(done) == ~done

\* cancelCtx(): ctx.Done() is closed after the call, whatever it was before.
cancelCtx(done) == TRUE

\* s.Shutdown returns, when the connections are idle or after the grace
\* period of webServerShutdownTimeoutSecs, and onClose calls cancelCtx.
CloseCancel ==
    /\ cpc = "shutdown"
    /\ cancelled' = cancelCtx(cancelled)
    /\ cpc' = "idle"
    /\ UNCHANGED << transport, prodVars, mergeVars, i, timerFired, eof, slots,
                    ret, histVars >>

\* ------------------------------------------------------- specification
Next ==
    \/ FileScanLine \/ FileScanEOF \/ FileScanFail
    \/ ProducerCloseErr \/ FileCloseEv
    \/ ListenOk \/ ListenFail \/ ServeClosed \/ WebRequest \/ WebEnqueue
    \/ MergeRecvFile \/ MergeRecvWeb \/ MergeEventClosed \/ MergeCtxDone
    \/ MergeRecvErr \/ MergeErrClosed \/ MergeCloseErr \/ MergeCloseEv
    \/ NextBatchEnter \/ TimerFire
    \/ NBRecvEvent \/ NBEventClosed \/ NBTimeout \/ NBCtxDone
    \/ NBRecvErr \/ NBErrClosed
    \/ Close \/ CloseCancel

Spec == Init /\ [][Next]_vars


\* The behaviours of a source opened by OpenFilePath: the steps of Next
\* that a file source takes (its context is context.Background(), which is
\* never cancelled, and its cancel function is nil).
FileInit == Init /\ transport = "file"

FileStep ==
    \/ FileScanLine \/ FileScanEOF \/ FileScanFail
    \/ ProducerCloseErr \/ FileCloseEv

MergeStep ==
    \/ MergeRecvFile \/ MergeRecvWeb \/ MergeEventClosed \/ MergeCtxDone
    \/ MergeRecvErr \/ MergeErrClosed \/ MergeCloseErr \/ MergeCloseEv

\* The cases of the select of NextBatch other than the timeout.
NBProgress ==
    \/ NBRecvEvent \/ NBEventClosed \/ NBCtxDone \/ NBRecvErr \/ NBErrClosed

FileNext ==
    \/ FileScanLine \/ FileScanEOF \/ FileScanFail
    \/ ProducerCloseErr \/ FileCloseEv
    \/ MergeRecvFile \/ MergeEventClosed
    \/ MergeRecvErr \/ MergeErrClosed \/ MergeCloseErr \/ MergeCloseEv
    \/ NextBatchEnter \/ TimerFire
    \/ NBRecvEvent \/ NBEventClosed \/ NBTimeout
    \/ NBRecvErr \/ NBErrClosed
    \/ Close

\* Scheduling: every goroutine that can take a step eventually takes one,
\* the consumer keeps calling NextBatch, and a select that finds a case
\* other than the timeout ready again and again eventually takes such a
\* case (Go picks among the ready cases at random).
FairFileSpec ==
    /\ FileInit /\ [][FileNext]_vars
    /\ WF_vars(FileStep)
    /\ WF_vars(MergeStep)
    /\ WF_vars(NextBatchEnter)
    /\ SF_vars(NBProgress)

\* The behaviours of a source opened by OpenWebServer.
WebInit == Init /\ transport = "web"

ListenerStep == ListenOk \/ ListenFail \/ ServeClosed \/ ProducerCloseErr

WebNext ==
    \/ ListenOk \/ ListenFail \/ ServeClosed \/ ProducerCloseErr
    \/ WebRequest \/ WebEnqueue
    \/ MergeRecvWeb \/ MergeCtxDone
    \/ MergeRecvErr \/ MergeErrClosed \/ MergeCloseErr \/ MergeCloseEv
    \/ NextBatchEnter \/ TimerFire
    \/ NBRecvEvent \/ NBEventClosed \/ NBTimeout \/ NBCtxDone
    \/ NBRecvErr \/ NBErrClosed
    \/ Close \/ CloseCancel

\* Scheduling as for FairFileSpec; requests arrive or not, and Shutdown
\* returns within its grace period.
FairWebSpec ==
    /\ WebInit /\ [][WebNext]_vars
    /\ WF_vars(ListenerStep)
    /\ WF_vars(WebEnqueue)
    /\ WF_vars(MergeStep)
    /\ WF_vars(NextBatchEnter)
    /\ WF_vars(CloseCancel)
    /\ SF_vars(NBProgress)

\* A file source whose scan goroutine has read the first line that is not
\* empty, a line of any shape and the last but one of the file, and is about
\* to send it (source.go:90-95); the last line is drawn from Pool.
ShapesInit ==
    /\ transport = "file"
    /\ ppc = "send"
    /\ nmsgs = MaxMsgs - 1
    /\ pmsg \in Shapes(MaxMsgs - 1)
    /\ Opened

ShapesSpec == ShapesInit /\ [][FileNext]_vars

\* ------------------------------------------------------------- claims
\* The record NextBatch writes for an event (source.go:271-279).
Written(ev) == [data |-> MarshalTo(ev.Data), ts |-> ev.Timestamp]

RECURSIVE WrittenAll(_)
WrittenAll(values) ==
    IF values = <<>> THEN <<>>
    ELSE <<Written(Head(values))>> \o WrittenAll(Tail(values))

\* The records of a sequence of raw messages, in order.
RECURSIVE Records(_)
Records(msgs) ==
    IF msgs = <<>> THEN <<>>
    ELSE WrittenAll(messageValues(Head(msgs))) \o Records(Tail(msgs))

\* A raw message that normalizes to records within the size limit.
ValidMsg(bytes) ==
    /\ ParseBytes(bytes).err = ErrNil
    /\ parseJSONMessage(ParseBytes(bytes).value).err = ErrNil
    /\ \A k \in 1 .. Len(messageValues(bytes)) :
          MarshalTo(messageValues(bytes)[k].Data).len <= MaxEventSize

AllValid(msgs) == \A k \in 1 .. Len(msgs) : ValidMsg(msgs[k])

\* What NextBatch returns from its first line once e.eof is set.
EOFReturn == [n |-> 0, err |-> ErrEOF]

C1_Marked == (ret.err = ErrEOF \/ errReturns > 0) => eof

C1_Step ==
    eof => /\ eof'
           /\ cpc' # "select"
           /\ slots' = slots
           /\ delivered' = delivered
           /\ (ret' = ret \/ ret' = EOFReturn)

\* C1: a NextBatch call that returns EOF, or an error received from the
\* error channel, leaves e.eof set; and from then on e.eof stays set, no
\* call enters the loop, no slot is written and every return is (0, EOF).
C1_ExhaustionTerminal == []C1_Marked /\ [][C1_Step]_vars

\* A NextBatch call was made with e.eof set while the merge goroutine still
\* holds values to send.
C1_Witness == eofCalls /\ ret = EOFReturn /\ mpc = "send" /\ mvals # <<>>

\* C2 (as claimed): NextBatch returns a nil error only with a full batch.
C2_OkOnlyWhenFull == ret.err = ErrNil => ret.n = BatchSize

RECURSIVE IsSubseq(_, _)
IsSubseq(a, b) ==
    IF a = <<>> THEN TRUE
    ELSE IF b = <<>> THEN FALSE
    ELSE IF Head(a) = Head(b) THEN IsSubseq(Tail(a), Tail(b))
    ELSE IsSubseq(a, Tail(b))

NoDuplicates(a) ==
    \A j, k \in 1 .. Len(a) : a[j] = a[k] => j = k

\* C3: the records delivered so far, in delivery order, are a subsequence
\* without duplicates of the records of the raw messages in the order the
\* messages entered eventChan.
C3_EmissionOrder ==
    /\ IsSubseq(delivered, Records(emitted))
    /\ NoDuplicates(delivered)

\* Records of two messages were delivered, two of them of one message.
C3_Witness ==
    /\ \E j, k \in 1 .. Len(delivered) :
          j < k /\ delivered[j].data.id \div 10 = delivered[k].data.id \div 10
    /\ \E j, k \in 1 .. Len(delivered) :
          j < k /\ delivered[j].data.id \div 10 # delivered[k].data.id \div 10

C4_Safe ==
    (transport = "file" /\ ~scanFailed /\ AllValid(emitted) /\ ret.err = ErrEOF)
        => /\ ppc \in {"closeEv", "done"}
           /\ delivered = Records(emitted)

C4_Count ==
    (cpc = "select" /\ cpc' = "idle" /\ ret'.err = ErrEOF) => ret'.n = i

C4_Live ==
    (transport = "file" /\ ~scanFailed) ~> (scanFailed \/ ret.err = ErrEOF)

\* C4: for a file source whose lines all normalize to records within the
\* size limit and whose reads succeed, once a NextBatch call has returned
\* EOF the scan goroutine has finished and the delivered records are
\* exactly the records of the file's lines, in file order; a call that
\* returns EOF from the loop returns the count it has filled; and EOF is
\* eventually returned.
C4_FileDeliversAllThenEOF ==
    /\ []C4_Safe
    /\ [][C4_Count]_vars
    /\ C4_Live


\* A file of two lines, three records, was read to its end and delivered,
\* and the call that saw the end returned a filled slot with EOF.
C4_Witness ==
    /\ transport = "file" /\ ~scanFailed /\ AllValid(emitted)
    /\ Len(emitted) >= 2 /\ Len(delivered) >= 3
    /\ delivered = Records(emitted)
    /\ ret.err = ErrEOF /\ ret.n >= 1 /\ ~eofCalls

\* C5 (as claimed): once a file source whose read failed is exhausted,
\* exactly one NextBatch call has returned an error that is neither nil nor
\* EOF nor Timeout.
C5_ReadFailureSurfaces ==
    (transport = "file" /\ scanFailed /\ eof) => errReturns = 1

C6_Safe ==
    (transport = "web" /\ perr = ErrListen /\ ~closeCalled /\ eof)
        => errReturns = 1

C6_Once ==
    (transport = "web" /\ errReturns' # errReturns)
        => errReturns = 0 /\ ret'.err = ErrListen /\ eof'

C6_Live ==
    (transport = "web" /\ perr = ErrListen /\ ~closeCalled)
        ~> (closeCalled \/ errReturns = 1)

\* C6: a webhook source whose listener failed to start and that is not
\* closed returns the listener's error from NextBatch eventually, and from
\* one call only; that call sets e.eof, and the source is not exhausted
\* before it.
C6_ListenErrorSurfaces ==
    /\ []C6_Safe
    /\ [][C6_Once]_vars
    /\ C6_Live

\* The listener's error was returned and a later call returned (0, EOF).
C6_Witness ==
    /\ transport = "web" /\ perr = ErrListen /\ ~closeCalled
    /\ errReturns = 1 /\ eofCalls /\ ret = EOFReturn

\* Nothing is ready for the select of NextBatch but, possibly, the timer.
Quiet ==
    /\ mpc \notin {"send", "sendErr"}
    /\ ~newEventChanClosed /\ ~newErrorChanClosed /\ ~cancelled

C7_Step ==
    /\ (cpc = "select" /\ cpc' = "idle" /\ Quiet)
          => timerFired /\ ret' = [n |-> i, err |-> ErrTimeout]
    /\ (cpc = "select" /\ cpc' = "idle" /\ ret'.err = ErrTimeout)
          => ret'.n = i /\ ~eof' /\ delivered' = delivered
    /\ (cpc = "idle" /\ cpc' = "select") => ~timerFired' /\ i' = 0

\* C7: a call that ends while no record, error, close or cancellation is
\* ready ends by the timer and returns the count filled, 0 when nothing
\* arrived, with Timeout; a Timeout return leaves e.eof unset; and the next
\* call starts with a timer that has not expired.
C7_TimeoutNotExhaustion ==
    /\ [](ret.err = ErrTimeout => ~eof)
    /\ [][C7_Step]_vars

\* After a call returned (0, Timeout), the call in progress has filled a slot.
C7_Witness ==
    cpc = "select" /\ ret = [n |-> 0, err |-> ErrTimeout] /\ i > 0

C8_Step ==
    (cpc = "select" /\ mpc = "send" /\ mvals' # mvals) =>
        IF MarshalTo(Head(mvals).Data).len > MaxEventSize
        THEN /\ i' = i /\ slots' = slots /\ delivered' = delivered
             /\ timerFired' = timerFired
             /\ cpc' = "select" /\ ret' = ret /\ eof' = eof
        ELSE /\ slots' = [slots EXCEPT ![i] = Written(Head(mvals))]
             /\ delivered' = Append(delivered, Written(Head(mvals)))
             /\ \/ i' = i + 1 /\ cpc' = "select" /\ ret' = ret
                \/ cpc' = "idle" /\ ret' = [n |-> i + 1, err |-> ErrNil]

\* C8: receiving a record longer than MaxEventSize changes neither the
\* count, the slots, the timer nor the result and leaves the call in its
\* loop; receiving any other record writes it to slot i and advances i.
C8_OversizedDropped == [][C8_Step]_vars

\* In the call in progress a record was dropped and a later one was written.
C8_Witness == cpc = "select" /\ droppedAt >= 0 /\ i > droppedAt

\* C9 (as claimed): once ctx is cancelled no record is written to a slot.
C9_NoWriteAfterCancel ==
    [][cancelled => (delivered' = delivered /\ slots' = slots)]_vars

\* C10 (as claimed): once Close was called on a file source no record is
\* written to a slot.
C10_FileCloseStops ==
    [][(transport = "file" /\ closeCalled)
          => (delivered' = delivered /\ slots' = slots)]_vars

C11_File ==
    (transport = "file" /\ closeCalled' # closeCalled)
        => UNCHANGED << transport, prodVars, mergeVars, consVars, emitted,
                        delivered, scanFailed, errReturns, droppedAt,
                        eofCalls >>

C11_Web ==
    (transport = "web" /\ closeCalled /\ cancelled
        /\ cpc' # cpc /\ "shutdown" \in {cpc, cpc'})
        => UNCHANGED << transport, prodVars, mergeVars, cancelled, i,
                        timerFired, eof, slots, ret, histVars >>

\* C11: Close on a file source changes nothing of the source; on a webhook
\* source that was closed before, the steps of a further Close (Shutdown,
\* then cancelCtx) leave the server, the channels, the goroutines, ctx, e.eof
\* and the batch as they were, so that what NextBatch returns afterwards is
\* what it returns after one Close.
C11_CloseIdempotent == [][C11_File /\ C11_Web]_vars

\* A further Close of a closed webhook source is in progress, after
\* NextBatch saw the cancellation of the first one.
C11_Witness ==
    /\ transport = "web" /\ closeCalled /\ cancelled /\ cpc = "shutdown"
    /\ eof /\ ret.err = ErrEOF

\* A stageTimestamp that is an RFC 3339 time, and the instant it denotes.
GoodTs(v) == v.t = "object" /\ v.stageTimestamp \in {T1, T2}
Instant(ts) == IF ts = T1 THEN 1672531201 ELSE 1672531202

\* Some Event or EventList item of the value, at any depth of arrays, has
\* no stageTimestamp or one that is no time.
RECURSIVE HasBadTs(_)
HasBadTs(v) ==
    IF v.t = "array" THEN \E k \in 1 .. Len(v.elems) : HasBadTs(v.elems[k])
    ELSE IF v.kind = "Event" THEN ~GoodTs(v)
    ELSE IF v.kind = "EventList" /\ v.hasItems
    THEN \E k \in 1 .. Len(v.items) : ~GoodTs(v.items[k])
    ELSE FALSE

\* An object that is neither an Event nor an EventList with items.
Unrecognized(v) ==
    /\ v.t = "object" /\ v.kind # "Event"
    /\ ~(v.kind = "EventList" /\ v.hasItems)

\* A message with a message-level problem: no JSON, an unrecognized value,
\* or a missing or bad timestamp.
MessageProblem(bytes) ==
    \/ ~bytes.wellFormed
    \/ Unrecognized(bytes.value)
    \/ HasBadTs(bytes.value)

\* A value made of Events and EventLists with good timestamps only.
RECURSIVE FullyValid(_)
FullyValid(v) ==
    IF v.t = "array" THEN \A k \in 1 .. Len(v.elems) : FullyValid(v.elems[k])
    ELSE IF v.kind = "Event" THEN GoodTs(v)
    ELSE IF v.kind = "EventList" /\ v.hasItems
    THEN \A k \in 1 .. Len(v.items) : GoodTs(v.items[k])
    ELSE FALSE

\* The flattening of a fully valid value: its events in document order.
RECURSIVE Flatten(_)
RECURSIVE FlattenAll(_)
FlattenAll(vs) ==
    IF vs = <<>> THEN <<>> ELSE Flatten(Head(vs)) \o FlattenAll(Tail(vs))

Flatten(v) ==
    IF v.t = "array" THEN FlattenAll(v.elems)
    ELSE IF v.kind = "EventList" THEN FlattenAll(v.items)
    ELSE << [Data |-> v, Timestamp |-> Instant(v.stageTimestamp)] >>

\* The records a consumer is to get for a sequence of raw messages each of
\* which is fully valid or has a message-level problem: those of the fully
\* valid messages that are within the size limit.
RECURSIVE InLimit(_)
InLimit(recs) ==
    IF recs = <<>> THEN <<>>
    ELSE IF Head(recs).data.len > MaxEventSize THEN InLimit(Tail(recs))
    ELSE << Head(recs) >> \o InLimit(Tail(recs))

RECURSIVE Expected(_)
Expected(msgs) ==
    IF msgs = <<>> THEN <<>>
    ELSE (IF MessageProblem(Head(msgs)) THEN <<>>
          ELSE InLimit(WrittenAll(Flatten(Head(msgs).value))))
         \o Expected(Tail(msgs))

Classified(msgs) ==
    \A k \in 1 .. Len(msgs) :
        MessageProblem(msgs[k]) \/ FullyValid(msgs[k].value)

C12_Step ==
    (transport = "file" /\ ppc = "send" /\ ppc' = "scan"
        /\ MessageProblem(pmsg))
        => /\ mvals' = <<>> /\ mpc' = "select"
           /\ UNCHANGED << merr, newEventChanClosed, newErrorChanClosed >>
           /\ UNCHANGED << consVars, delivered, errReturns >>

C12_Safe ==
    (transport = "file" /\ ~scanFailed /\ Classified(emitted))
        => /\ errReturns = 0
           /\ (ret.err = ErrEOF => /\ ppc \in {"closeEv", "done"}
                                   /\ delivered = Expected(emitted))

\* C12: when the merge goroutine takes a line that is no JSON, is an
\* unrecognized value or holds a missing or bad timestamp, it gets no
\* record from it, stays in its select with its channels open, and the
\* consumer's call, count, status and e.eof are untouched; and a file
\* source whose reads succeed returns no error, returns EOF only after the
\* end of the file, and has then delivered the records of every valid line.
C12_MessageProblemsNotFatal == [][C12_Step]_vars /\ []C12_Safe

\* A line with a message-level problem was followed by a valid line whose
\* record was delivered before the source returned EOF without an error.
C12_Witness ==
    /\ transport = "file" /\ ~scanFailed /\ Len(emitted) = 2
    /\ MessageProblem(emitted[1]) /\ FullyValid(emitted[2].value)
    /\ delivered # <<>> /\ delivered = Expected(emitted)
    /\ ret.err = ErrEOF /\ errReturns = 0

C13_Step ==
    (transport = "file" /\ ppc = "send" /\ ppc' = "scan"
        /\ pmsg.wellFormed /\ FullyValid(pmsg.value))
        => /\ mvals' = Flatten(pmsg.value)
           /\ (pmsg.value.t = "object" /\ pmsg.value.kind = "Event")
                 => Len(mvals') = 1
           /\ (pmsg.value.t = "object" /\ pmsg.value.kind = "EventList")
                 => Len(mvals') = Len(pmsg.value.items)

\* C13: the values the merge goroutine gets from a line made of Events and
\* EventLists with good timestamps only are the flattening of the line: one
\* value with the instant of its stageTimestamp for an Event, one per item
\* and in item order for an EventList, and for an array, nested or not, the
\* values of its elements one after the other in array order.
C13_NormalizationFlattens == [][C13_Step]_vars

\* The merge goroutine holds the four values, in document order, of an
\* array that nests an array in an array next to an EventList.
C13_Witness ==
    /\ Len(emitted) = 1 /\ emitted[1].wellFormed
    /\ emitted[1].value.t = "array"
    /\ \E k \in 1 .. Len(emitted[1].value.elems) :
          emitted[1].value.elems[k].t = "array"
    /\ mpc = "send" /\ Len(mvals) = 4
    /\ mvals = Flatten(emitted[1].value)
    /\ \A k \in 1 .. 4 : mvals[k].Data.id % 10 = k

\* The events of an array without its elements of unrecognized shape.
RECURSIVE Siblings(_)
Siblings(elems) ==
    IF elems = <<>> THEN <<>>
    ELSE (IF Head(elems).t = "array" THEN Siblings(Head(elems).elems)
          ELSE IF Unrecognized(Head(elems)) THEN <<>>
          ELSE Flatten(Head(elems)))
         \o Siblings(Tail(elems))

\* C14 (as claimed): the values the merge goroutine gets from an array
\* without timestamp problems that holds an object of unrecognized shape are
\* the values of the other elements, in array order.
C14_UnrecognizedElementSkipped ==
    [][(transport = "file" /\ ppc = "send" /\ ppc' = "scan"
          /\ pmsg.wellFormed /\ pmsg.value.t = "array"
          /\ ~HasBadTs(pmsg.value)
          /\ \E k \in 1 .. Len(pmsg.value.elems) :
                Unrecognized(pmsg.value.elems[k]))
        => mvals' = Siblings(pmsg.value.elems)]_vars

\* The ids of the Events and EventList items of a value.
RECURSIVE Ids(_)
Ids(v) ==
    IF v.t = "array" THEN UNION { Ids(v.elems[k]) : k \in 1 .. Len(v.elems) }
    ELSE IF v.kind = "EventList"
    THEN { v.items[k].id : k \in 1 .. Len(v.items) }
    ELSE { v.id }

C15_Step ==
    (transport = "file" /\ ppc = "send" /\ ppc' = "scan"
        /\ pmsg.wellFormed /\ HasBadTs(pmsg.value))
        => mvals' = <<>>

C15_Safe ==
    \A m \in 1 .. Len(emitted) :
        (emitted[m].wellFormed /\ HasBadTs(emitted[m].value))
            => \A k \in 1 .. Len(delivered) :
                  delivered[k].data.id \notin Ids(emitted[m].value)

\* C15: a line in which an Event or an EventList item, at any depth of
\* arrays, has no stageTimestamp or one that is no time gives the merge
\* goroutine no value, and no entry of that line is ever delivered, the
\* entries before the offending one included.
C15_TimestampAllOrNothing == [][C15_Step]_vars /\ []C15_Safe

\* An array whose first element is a good Event and in which a later entry
\* has a timestamp problem was taken, and the source has delivered the next
\* line and returned EOF.
C15_Witness ==
    /\ Len(emitted) = 2 /\ emitted[1].wellFormed
    /\ emitted[1].value.t = "array" /\ HasBadTs(emitted[1].value)
    /\ GoodTs(emitted[1].value.elems[1])
    /\ delivered # <<>> /\ ret.err = ErrEOF

C16_Step ==
    (transport = "file" /\ scanFailed
        /\ cpc = "select" /\ mpc = "sendErr" /\ mpc' = "select")
        => /\ delivered = InLimit(Records(emitted))
           /\ delivered' = delivered
           /\ ret' = [n |-> i, err |-> merr]
           /\ cpc' = "idle" /\ eof'

C17_MergeTerminates ==
    cancelled ~> (mpc = "done" /\ newErrorChanClosed /\ newEventChanClosed)

Range(a) == { a[k] : k \in 1 .. Len(a) }

C18_Queue ==
    transport = "web" =>
        /\ Len(eventChan) <= EventChanCap
        /\ NoDuplicates(emitted)
        /\ pending \cap Range(emitted) = {}
        /\ Len(eventChan) <= Len(emitted)
        /\ eventChan = SubSeq(emitted, Len(emitted) - Len(eventChan) + 1,
                              Len(emitted))

C18_Step ==
    transport = "web" =>
        /\ (nmsgs' # nmsgs /\ httpStatus' = 200)
              => \E b \in pending' :
                    /\ b \notin pending \cup Range(emitted)
                    /\ pending' = pending \cup {b}
        /\ pending \subseteq pending' \cup Range(emitted')
        /\ Len(eventChan) = EventChanCap
              => pending \subseteq pending' /\ emitted' = emitted
        /\ eventChan' # eventChan
              => \/ /\ eventChan # <<>>
                    /\ eventChan' = Tail(eventChan)
                    /\ mvals' = messageValues(Head(eventChan))
                    /\ UNCHANGED << pending, emitted >>
                 \/ \E b \in pending :
                       /\ eventChan' = Append(eventChan, b)
                       /\ emitted' = Append(emitted, b)
                       /\ pending' = pending \ {b}

C19_HandlerNotBlockedForEver ==
    (transport = "web" /\ pending # {}) ~> (pending = {})

\* The count of the call in progress, or of the last call that returned.
Count == IF cpc = "select" THEN i ELSE ret.n

C20_Slots ==
    /\ Count \in 0 .. BatchSize
    /\ Count <= Len(delivered)
    /\ \A k \in 0 .. Count - 1 :
          slots[k] = delivered[Len(delivered) - Count + k + 1]

C20_Ok == ret.err = ErrNil => ret.n = BatchSize

C20_Step ==
    \A k \in 0 .. BatchSize - 1 :
        slots'[k] # slots[k]
            => /\ cpc = "select" /\ k = i
               /\ slots'[k] = Written(Head(mvals))
               /\ IF cpc' = "select" THEN i' = i + 1 ELSE ret'.n = i + 1

\* C20 (as claimed): the count of a call is between 0 and the batch
\* capacity; the slots below the count hold the records the call accepted,
\* in arrival order, with their timestamps; a call writes no other slot than
\* the one at its count, which it then advances; and a call returns a nil
\* error only with a count equal to the batch capacity.
C20_ResultShape == [](C20_Slots /\ C20_Ok) /\ [][C20_Step]_vars

====
